---- MODULE Spec2Model ----
(***************************************************************************)
(* A model of destructure.py: recursive schema matching with name          *)
(* bindings (Binding, Unbound), the match session (Match), the top-level   *)
(* function match and Switch.case.                                         *)
(*                                                                         *)
(* Python values are tagged records:                                       *)
(*   [t |-> "int", v |-> 1]            an int                              *)
(*   [t |-> "str", v |-> <<"s">>]      a str, as its characters            *)
(*   [t |-> "seq", k |-> "list" | "tuple", items |-> <<...>>]              *)
(*   [t |-> "map", keys |-> <<...>>, vals |-> <<...>>]   a dict, in        *)
(*                                      insertion order                    *)
(*   [t |-> "type", name |-> "int"]    a class used as a schema            *)
(*   [t |-> "ellipsis"]                the object ...                      *)
(*   [t |-> "unbound", ns |-> b, name |-> n]   Unbound(namespace, name)    *)
(*   [t |-> "obj", cls |-> c, id |-> i, keys |-> <<...>>, vals |-> <<...>>] *)
(*                                      an instance of a user class        *)
(* The key ... of a schema dict is the key string EllipsisKey.             *)
(***************************************************************************)
EXTENDS Integers, Sequences, FiniteSets, TLC

\* ------------------------------------------------------------ values

None == [t |-> "none"]
Ellipsis == [t |-> "ellipsis"]
EllipsisKey == "..."

PyInt(n) == [t |-> "int", v |-> n]
\* a str is the sequence of its characters
PyStr(chars) == [t |-> "str", v |-> chars]
PyType(n) == [t |-> "type", name |-> n]
PyList(items) == [t |-> "seq", k |-> "list", items |-> items]
PyTuple(items) == [t |-> "seq", k |-> "tuple", items |-> items]
PyDict(keys, vals) == [t |-> "map", keys |-> keys, vals |-> vals]

\* Unbound.__init__
Unbound(namespace, name) == [t |-> "unbound", ns |-> namespace, name |-> name]

\* the set of the elements of a sequence of strings
Range(s) == {s[i] : i \in 1..Len(s)}

\* d[k] of a dict d that has the key k
GetItem(d, k) == d.vals[CHOOSE i \in 1..Len(d.keys) : d.keys[i] = k]

\* An instance of a user class: cls its class, id the object itself, keys
\* and vals its instance attributes in the order of dir(), sorted by name.
PyObject(cls, id, keys, vals) ==
    [t |-> "obj", cls |-> cls, id |-> id, keys |-> keys, vals |-> vals]

\* The user classes: Foo defines __eq__ as self.bar == other.bar, Sub is
\* a subclass of Foo, Plain defines nothing (== is identity) and PSub is a
\* subclass of Plain.
Base(cls) ==
    CASE cls = "Sub" -> "Foo"
      [] cls = "PSub" -> "Plain"
      [] OTHER -> "object"
IsSubclass(cls, of) == cls = of \/ Base(cls) = of
BarEqClasses == {"Foo", "Sub"}

\* hasattr(v, name), getattr(v, name) for the instance attributes
HasAttr(v, name) == v.t = "obj" /\ name \in Range(v.keys)
GetAttr(v, name) == GetItem(v, name)

\* a == b is answered by Foo.__eq__, of a or reflected of b
EqUsesBar(a, b) ==
    \/ a.t = "obj" /\ a.cls \in BarEqClasses
    \/ b.t = "obj" /\ b.cls \in BarEqClasses

\* a == b raises AttributeError: Foo.__eq__ reads .bar of both
EqRaises(a, b) == EqUsesBar(a, b) /\ ~(HasAttr(a, "bar") /\ HasAttr(b, "bar"))

\* name.startswith('_'), over the attribute names in use
StartsWithUnderscore(name) == name \in {"_baz"}

\* callable(v): among the modelled values, the classes
Callable(v) == v.t = "type"

\* Python's == on the modelled values: ints and strs by value, lists and
\* tuples by kind and element-wise, dicts by key set and value per key,
\* classes and ... by identity, an Unbound by identity (namespace and name
\* stand for the object held by the schema), instances by Foo.__eq__ or by
\* identity.
RECURSIVE PyEq(_, _)
PyEq(a, b) ==
    IF EqUsesBar(a, b) /\ ~EqRaises(a, b)
    THEN PyEq(GetAttr(a, "bar"), GetAttr(b, "bar"))
    ELSE IF a.t # b.t THEN FALSE
    ELSE CASE a.t = "int" -> a.v = b.v
           [] a.t = "str" -> a.v = b.v
           [] a.t = "type" -> a.name = b.name
           [] a.t = "seq" ->
                /\ a.k = b.k
                /\ Len(a.items) = Len(b.items)
                /\ \A i \in 1..Len(a.items) : PyEq(a.items[i], b.items[i])
           [] a.t = "map" ->
                /\ Range(a.keys) = Range(b.keys)
                /\ \A i \in 1..Len(a.keys) : PyEq(a.vals[i], GetItem(b, a.keys[i]))
           [] a.t = "unbound" -> a.ns = b.ns /\ a.name = b.name
           [] a.t = "obj" -> a.id = b.id
           [] OTHER -> TRUE

\* isinstance(data, cls) for the builtin classes int, str, list, tuple, dict
\* and for the user classes
IsInstance(data, cls) ==
    CASE cls.name = "int" -> data.t = "int"
      [] cls.name = "str" -> data.t = "str"
      [] cls.name = "list" -> data.t = "seq" /\ data.k = "list"
      [] cls.name = "tuple" -> data.t = "seq" /\ data.k = "tuple"
      [] cls.name = "dict" -> data.t = "map"
      [] OTHER -> data.t = "obj" /\ IsSubclass(data.cls, cls.name)

\* isinstance(data, Sequence): lists, tuples and strs
IsSequence(data) == data.t = "seq" \/ data.t = "str"

\* isinstance(data, Mapping)
IsMapping(data) == data.t = "map"

\* the elements of a sequence value; those of a str are its one-character strs
Items(data) ==
    IF data.t = "str" THEN [i \in 1..Len(data.v) |-> PyStr(<<data.v[i]>>)]
    ELSE data.items

\* len(data) of a sequence value
PyLen(data) == IF data.t = "str" THEN Len(data.v) ELSE Len(data.items)

\* Python slices data[lo:] and data[:hi] of a sequence value, with negative
\* indices counted from the end and out-of-range indices clamped; a slice
\* has the type of the value sliced.
ClampIndex(n, i) ==
    IF i < 0 THEN (IF n + i < 0 THEN 0 ELSE n + i)
    ELSE IF i > n THEN n ELSE i
SliceFrom(data, lo) ==
    IF data.t = "str"
    THEN PyStr(SubSeq(data.v, ClampIndex(Len(data.v), lo) + 1, Len(data.v)))
    ELSE [data EXCEPT !.items =
            SubSeq(data.items, ClampIndex(Len(data.items), lo) + 1, Len(data.items))]
SliceTo(data, hi) ==
    IF data.t = "str"
    THEN PyStr(SubSeq(data.v, 1, ClampIndex(Len(data.v), hi)))
    ELSE [data EXCEPT !.items = SubSeq(data.items, 1, ClampIndex(Len(data.items), hi))]

\* a + b of two sequence values: defined for two lists, two tuples or two
\* strs, a TypeError otherwise
CanConcat(a, b) == a.t = b.t /\ (a.t = "seq" => a.k = b.k)
Concat(a, b) ==
    IF a.t = "str" THEN PyStr(a.v \o b.v) ELSE [a EXCEPT !.items = a.items \o b.items]

\* ------------------------------------------------------------ walk results
\* What a call of a Match method does: the bind calls it makes, in order
\* (each [ub |-> Unbound, value |-> data]), how it ends (out: "ok" or the
\* exception class raised) and, when it returns, the value returned.

Ok(binds, res) == [out |-> "ok", binds |-> binds, res |-> res]
Raise(exc, binds) == [out |-> exc, binds |-> binds, res |-> None]

\* the items of the dict d whose keys are not in ks, in d's order
DictWithout(d, ks) ==
    LET idx == SelectSeq([i \in 1..Len(d.keys) |-> i], LAMBDA i : d.keys[i] \notin ks)
    IN PyDict([j \in 1..Len(idx) |-> d.keys[idx[j]]],
              [j \in 1..Len(idx) |-> d.vals[idx[j]]])

\* dict.update with items whose keys the dict does not have yet: appended
DictUpdate(d, extra) == PyDict(d.keys \o extra.keys, d.vals \o extra.vals)

\* ------------------------------------------------------------ Match methods

RECURSIVE Match_match(_, _)
RECURSIVE match_mapping(_, _)
RECURSIVE match_sequence(_, _)
RECURSIVE MapMatch(_, _)
RECURSIVE match_instance(_, _)
RECURSIVE MatchAttrs(_, _, _)

\* Match.match_type
match_type(schema, data) ==
    IF ~IsInstance(data, schema) THEN Raise("MatchError", <<>>)
    ELSE Ok(<<>>, data)

\* Match.match_equal
match_equal(schema, data) ==
    IF EqRaises(schema, data) THEN Raise("AttributeError", <<>>)
    ELSE IF PyEq(schema, data) THEN Ok(<<>>, data)
    ELSE Raise("MatchError", <<>>)

\* map(self.match, schema, data), consumed from the left: it stops at the
\* shorter of the two and at the first exception. items are the results.
MapMatch(schemas, datas) ==
    IF Len(schemas) = 0 \/ Len(datas) = 0
    THEN [out |-> "ok", binds |-> <<>>, items |-> <<>>]
    ELSE LET h == Match_match(Head(schemas), Head(datas))
         IN IF h.out # "ok"
            THEN [out |-> h.out, binds |-> h.binds, items |-> <<>>]
            ELSE LET r == MapMatch(Tail(schemas), Tail(datas))
                 IN [out |-> r.out, binds |-> h.binds \o r.binds,
                     items |-> <<h.res>> \o r.items]

\* match_mapping_ellipsis with the test for no extra items made first, for
\* the wildcard too
match_mapping_ellipsis_ExtraRequired(schema0, data) ==
    LET schema == DictWithout(schema0, {EllipsisKey})
        value == GetItem(schema0, EllipsisKey)
        extra == DictWithout(data, Range(schema.keys))
    IN IF Len(extra.keys) = 0 THEN Raise("MatchError", <<>>)
       ELSE IF value.t = "ellipsis" \/ Len(extra.keys) = 1
       THEN match_mapping(DictUpdate(schema, extra), data)
       ELSE Raise("IndexError", <<>>)

\* Match.match_mapping_ellipsis
match_mapping_ellipsis(schema0, data) ==
    LET schema == DictWithout(schema0, {EllipsisKey})
        value == GetItem(schema0, EllipsisKey)
        extra == DictWithout(data, Range(schema.keys))
    IN IF value.t = "ellipsis" \/ Len(extra.keys) = 1
       THEN match_mapping(DictUpdate(schema, extra), data)
       ELSE IF Len(extra.keys) = 0
       THEN Raise("MatchError", <<>>)
       \* the format string of line 183 has the replacement field '{...: ...}',
       \* which str.format cannot resolve: it raises IndexError, and the
       \* MatchError of line 184 is never built
       ELSE Raise("IndexError", <<>>)

\* match_mapping without the test for keys of the data that the schema
\* does not have
match_mapping_AllowExcess(schema, data) ==
    IF ~IsMapping(data) THEN Raise("MatchError", <<>>)
    ELSE LET missing == Range(schema.keys) \ Range(data.keys)
         IN IF missing = {EllipsisKey} THEN match_mapping_ellipsis(schema, data)
            ELSE IF missing # {} THEN Raise("MatchError", <<>>)
            ELSE LET r == MapMatch(schema.vals,
                                   [i \in 1..Len(schema.keys) |-> GetItem(data, schema.keys[i])])
                 IN IF r.out # "ok" THEN Raise(r.out, r.binds)
                    ELSE Ok(r.binds, PyDict(schema.keys, r.items))

\* Match.match_mapping
match_mapping(schema, data) ==
    IF ~IsMapping(data) THEN Raise("MatchError", <<>>)
    ELSE LET missing == Range(schema.keys) \ Range(data.keys)
             excess == Range(data.keys) \ Range(schema.keys)
         IN IF missing = {EllipsisKey} THEN match_mapping_ellipsis(schema, data)
            ELSE IF missing # {} THEN Raise("MatchError", <<>>)
            ELSE IF excess # {} THEN Raise("MatchError", <<>>)
            ELSE LET r == MapMatch(schema.vals,
                                   [i \in 1..Len(schema.keys) |-> GetItem(data, schema.keys[i])])
                 IN IF r.out # "ok" THEN Raise(r.out, r.binds)
                    ELSE Ok(r.binds, PyDict(schema.keys, r.items))

\* ... in schema, and schema.index(...) counted from 0
HasEllipsis(schema) == \E i \in 1..Len(schema.items) : schema.items[i].t = "ellipsis"
IndexOfEllipsis(schema) ==
    (CHOOSE i \in 1..Len(schema.items) :
        /\ schema.items[i].t = "ellipsis"
        /\ \A j \in 1..(i - 1) : schema.items[j].t # "ellipsis") - 1

\* matched + rest (left) or rest + matched (right) after a recursive
\* match_sequence m: the TypeError of + when the two types differ
ConcatMatched(m, rest, left) ==
    IF m.out # "ok" THEN Raise(m.out, m.binds)
    ELSE IF ~CanConcat(m.res, rest) THEN Raise("TypeError", m.binds)
    ELSE Ok(m.binds, IF left THEN Concat(m.res, rest) ELSE Concat(rest, m.res))

\* Match.match_sequence
match_sequence(schema, data) ==
    IF ~IsSequence(data) THEN Raise("MatchError", <<>>)
    ELSE IF PyLen(data) # 0 /\ Len(schema.items) = 0 THEN Raise("MatchError", <<>>)
    ELSE IF ~HasEllipsis(schema)
    THEN LET n == Len(schema.items)
             m == PyLen(data)
         IN IF n > m THEN Raise("MatchError", <<>>)
            ELSE IF m < n THEN Raise("MatchError", <<>>)
            ELSE LET r == MapMatch(schema.items, Items(data))
                 IN IF r.out = "ok"
                    THEN Ok(r.binds, [t |-> "seq", k |-> schema.k, items |-> r.items])
                    \* except TypeError: cls(*map(self.match, schema, data))
                    \* walks schema and data again, binds included, and
                    \* meets the same TypeError
                    ELSE IF r.out = "TypeError"
                    THEN Raise("TypeError", r.binds \o r.binds)
                    ELSE Raise(r.out, r.binds)
    ELSE IF schema.items[Len(schema.items)].t = "ellipsis"
    THEN LET split == Len(schema.items) - 1
         IN ConcatMatched(match_sequence(SliceTo(schema, -1), SliceTo(data, split)),
                          SliceFrom(data, split), TRUE)
    ELSE IF schema.items[1].t = "ellipsis"
    THEN LET split == 1 - Len(schema.items)
         IN ConcatMatched(match_sequence(SliceFrom(schema, 1), SliceFrom(data, split)),
                          SliceTo(data, split), FALSE)
    ELSE LET split == IndexOfEllipsis(schema)
             a == match_sequence(SliceTo(schema, split), SliceTo(data, split))
         IN IF a.out # "ok" THEN Raise(a.out, a.binds)
            ELSE LET b == match_sequence(SliceFrom(schema, split), SliceFrom(data, split))
                 IN IF b.out # "ok" THEN Raise(b.out, a.binds \o b.binds)
                    ELSE IF ~CanConcat(a.res, b.res)
                    THEN Raise("TypeError", a.binds \o b.binds)
                    ELSE Ok(a.binds \o b.binds, Concat(a.res, b.res))

\* the loop over the attributes with an attribute that the data lacks
\* passed over
MatchAttrs_SkipMissing(keys, vals, data) ==
    IF Len(keys) = 0 THEN Ok(<<>>, data)
    ELSE IF ~HasAttr(data, Head(keys)) THEN MatchAttrs(Tail(keys), Tail(vals), data)
    ELSE LET h == Match_match(Head(vals), GetAttr(data, Head(keys)))
         IN IF h.out = "AttributeError" THEN Raise("MatchError", h.binds)
            ELSE IF h.out # "ok" THEN Raise(h.out, h.binds)
            ELSE LET r == MatchAttrs(Tail(keys), Tail(vals), data)
                 IN [r EXCEPT !.binds = h.binds \o @]

\* lines 289-294: the attributes of the schema in order, each matched
\* against getattr(data, name). An AttributeError, of getattr or raised
\* within the nested match, becomes a MatchError.
MatchAttrs(keys, vals, data) ==
    IF Len(keys) = 0 THEN Ok(<<>>, data)
    ELSE IF ~HasAttr(data, Head(keys)) THEN Raise("MatchError", <<>>)
    ELSE LET h == Match_match(Head(vals), GetAttr(data, Head(keys)))
         IN IF h.out = "AttributeError" THEN Raise("MatchError", h.binds)
            ELSE IF h.out # "ok" THEN Raise(h.out, h.binds)
            ELSE LET r == MatchAttrs(Tail(keys), Tail(vals), data)
                 IN [r EXCEPT !.binds = h.binds \o @]

\* lines 286-288: the indices of the attributes of the schema that are
\* public and not callable
Attributes(schema) ==
    {i \in 1..Len(schema.keys) :
        ~StartsWithUnderscore(schema.keys[i]) /\ ~Callable(schema.vals[i])}

\* the elements of s at the indices in ix, in order
RECURSIVE Pick(_, _)
Pick(s, ix) ==
    IF Len(s) = 0 THEN <<>>
    ELSE Pick(SubSeq(s, 1, Len(s) - 1), ix) \o
         (IF Len(s) \in ix THEN <<s[Len(s)]>> ELSE <<>>)

\* Match.match_instance
match_instance(schema, data) ==
    LET ty == match_type(PyType(schema.cls), data)
        eq == match_equal(schema, data)
    IN IF ty.out # "ok" THEN ty
       ELSE IF eq.out # "MatchError" THEN eq
       ELSE MatchAttrs(Pick(schema.keys, Attributes(schema)),
                       Pick(schema.vals, Attributes(schema)), data)

\* Match.match: the dispatch on the schema. A placeholder is handed to
\* Match.bind, which returns the value.
Match_match(schema, data) ==
    CASE schema.t = "unbound" -> Ok(<<[ub |-> schema, value |-> data]>>, data)
      [] schema.t = "ellipsis" -> Ok(<<>>, data)
      [] schema.t = "type" -> match_type(schema, data)
      [] schema.t \in {"int", "str"} -> match_equal(schema, data)
      [] schema.t = "map" -> match_mapping(schema, data)
      [] schema.t = "seq" -> match_sequence(schema, data)
      [] schema.t = "obj" -> match_instance(schema, data)

\* ------------------------------------------------------------ Binding

BindingSets == {"a", "b"}
Names == {"x", "y"}

\* the instance dictionaries of the Binding objects: None for a name that
\* is not set
EmptyStore == [b \in BindingSets |-> [n \in Names |-> None]]

\* getattr(binding, name): the value set, or Binding.__getattr__
Binding_getattr(st, b, n) == IF st[b][n].t = "none" THEN Unbound(b, n) ELSE st[b][n]

\* __setattr__ without the test for a name already bound
Binding_setattr_NoCheck(st, b, n, value) ==
    [exc |-> "none", store |-> [st EXCEPT ![b][n] = value]]

\* Binding.__setattr__
Binding_setattr(st, b, n, value) ==
    IF Binding_getattr(st, b, n).t # "unbound"
    THEN [exc |-> "BindError", store |-> st]
    ELSE [exc |-> "none", store |-> [st EXCEPT ![b][n] = value]]

\* delattr(binding, name): SimpleNamespace's, an AttributeError when the
\* name is not set
Binding_delattr(st, b, n) ==
    IF st[b][n].t = "none"
    THEN [exc |-> "AttributeError", store |-> st]
    ELSE [exc |-> "none", store |-> [st EXCEPT ![b][n] = None]]

\* the names that hold a value
Bound(st) == {<<b, n>> \in BindingSets \X Names : st[b][n].t # "none"}

\* ------------------------------------------------------------ Match session

NoBinding == "none"
\* a lock is Free or holds the number of the thread that acquired it;
\* MainThread is the thread of a call that runs alone
Free == 0
MainThread == 1

\* Match.__init__
Match_init == [names |-> <<>>, binding |-> NoBinding]

\* bind without the test for a second Binding
bind_adopt_AnyBinding(sess, ub) ==
    IF sess.binding = NoBinding
    THEN [exc |-> "none", acquire |-> TRUE, sess |-> [sess EXCEPT !.binding = ub.ns]]
    ELSE [exc |-> "none", acquire |-> FALSE, sess |-> sess]

\* a bind that adopts the Binding of every placeholder it meets and takes
\* its lock, keeping the locks it has
bind_adopt_LockEach(sess, ub) ==
    IF sess.binding # ub.ns
    THEN [exc |-> "none", acquire |-> TRUE, sess |-> [sess EXCEPT !.binding = ub.ns]]
    ELSE [exc |-> "none", acquire |-> FALSE, sess |-> sess]

\* Match.bind, lines 312-316: the session adopts the Binding of the first
\* placeholder (and then acquires its lock), and refuses a second Binding
bind_adopt(sess, ub) ==
    IF sess.binding = NoBinding
    THEN [exc |-> "none", acquire |-> TRUE, sess |-> [sess EXCEPT !.binding = ub.ns]]
    ELSE IF sess.binding # ub.ns
    THEN [exc |-> "SchemaError", acquire |-> FALSE, sess |-> sess]
    ELSE [exc |-> "none", acquire |-> FALSE, sess |-> sess]

\* Match.bind, lines 318-323: setattr, then the name is recorded
bind_set(st, sess, ub, value) ==
    LET r == Binding_setattr(st, ub.ns, ub.name, value)
    IN IF r.exc # "none" THEN [exc |-> r.exc, store |-> st, sess |-> sess]
       ELSE [exc |-> "none", store |-> r.store,
             sess |-> [sess EXCEPT !.names = Append(@, ub)]]

\* Match.bind in a session that no other session interferes with: lk is
\* the state of the locks
Match_bind(st, lk, sess, ub, value) ==
    LET a == bind_adopt(sess, ub)
        lk1 == IF a.acquire THEN [lk EXCEPT ![ub.ns] = MainThread] ELSE lk
    IN IF a.exc # "none"
       THEN [exc |-> a.exc, store |-> st, lock |-> lk1, sess |-> a.sess]
       ELSE LET r == bind_set(st, a.sess, ub, value)
            IN [exc |-> r.exc, store |-> r.store, lock |-> lk1, sess |-> r.sess]

\* the bind calls of a walk in order, up to the first that raises
RECURSIVE RunBinds(_, _, _, _)
RunBinds(st, lk, sess, binds) ==
    IF Len(binds) = 0 THEN [exc |-> "none", store |-> st, lock |-> lk, sess |-> sess]
    ELSE LET r == Match_bind(st, lk, sess, Head(binds).ub, Head(binds).value)
         IN IF r.exc # "none" THEN r
            ELSE RunBinds(r.store, r.lock, r.sess, Tail(binds))

\* Match.__exit__, lines 147-149: the names recorded are deleted when the
\* exception is a MatchError
RECURSIVE Unwind(_, _)
Unwind(st, names) ==
    IF Len(names) = 0 THEN [exc |-> "none", store |-> st]
    ELSE LET r == Binding_delattr(st, Head(names).ns, Head(names).name)
         IN IF r.exc # "none" THEN r ELSE Unwind(r.store, Tail(names))

\* __exit__ that releases the lock and deletes no name
Match_exit_NoUnwind(st, lk, sess, etype) ==
    [out |-> etype, store |-> st,
     lock |-> IF sess.binding # NoBinding
              THEN [lk EXCEPT ![sess.binding] = Free] ELSE lk]

\* an __exit__ that, on MatchError, unsets every name of the Binding of
\* the session
Match_exit_ClearAll(st, lk, sess, etype) ==
    [out |-> etype,
     store |-> IF etype = "MatchError" /\ sess.binding # NoBinding
               THEN [st EXCEPT ![sess.binding] = [n \in Names |-> None]]
               ELSE st,
     lock |-> IF sess.binding # NoBinding
              THEN [lk EXCEPT ![sess.binding] = Free] ELSE lk]

\* Match.__exit__: etype is "ok" when the body returned. An exception
\* raised by delattr leaves __exit__ before the lock is released and
\* replaces the exception of the body.
Match_exit(st, lk, sess, etype) ==
    LET u == IF etype = "MatchError" THEN Unwind(st, sess.names)
             ELSE [exc |-> "none", store |-> st]
    IN IF u.exc # "none" THEN [out |-> u.exc, store |-> u.store, lock |-> lk]
       ELSE [out |-> etype, store |-> u.store,
             lock |-> IF sess.binding # NoBinding
                      THEN [lk EXCEPT ![sess.binding] = Free] ELSE lk]

\* ------------------------------------------------------------ guards
\* A guard is a function of no arguments that may read the Bindings. Those
\* modelled: lambda: b.n == v, and a guard that raises.

GuardEq(b, n, v) == [kind |-> "eq", ns |-> b, name |-> n, v |-> v]
GuardRaises == [kind |-> "raise"]

\* guard(): "true", "false" or "raise"
CallGuard(st, g) ==
    IF g.kind = "raise" THEN "raise"
    ELSE IF PyEq(Binding_getattr(st, g.ns, g.name), PyInt(g.v)) THEN "true" ELSE "false"

\* lines 401-404: the guards in order, up to the first that returns false
\* (MatchError) or raises (GuardError)
RECURSIVE RunGuards(_, _)
RunGuards(st, guards) ==
    IF Len(guards) = 0 THEN "ok"
    ELSE LET g == CallGuard(st, Head(guards))
         IN IF g = "false" THEN "MatchError"
            ELSE IF g = "raise" THEN "GuardError"
            ELSE RunGuards(st, Tail(guards))

\* ------------------------------------------------------------ match

\* match with the guards called on entry, before the schema is matched
match_GuardsFirst(st, lk, schema, data, guards) ==
    LET w == Match_match(schema, data)
        r == RunBinds(st, lk, Match_init, w.binds)
        g == RunGuards(st, guards)
        body == IF r.exc # "none" THEN r.exc
                ELSE IF w.out # "ok" THEN w.out
                ELSE g
        x == Match_exit(r.store, r.lock, r.sess, body)
    IN [out |-> x.out, res |-> IF x.out = "ok" THEN w.res ELSE None,
        store |-> x.store, lock |-> x.lock, sess |-> r.sess]

\* match(schema, data, *guards) run from start to end from the Bindings st
\* and the locks lk: out is "ok" or the exception that leaves the call, res
\* the value returned, sess the session at __exit__.
match(st, lk, schema, data, guards) ==
    LET w == Match_match(schema, data)
        r == RunBinds(st, lk, Match_init, w.binds)
        body == IF r.exc # "none" THEN r.exc
                ELSE IF w.out # "ok" THEN w.out
                ELSE RunGuards(r.store, guards)
        x == Match_exit(r.store, r.lock, r.sess, body)
    IN [out |-> x.out, res |-> IF x.out = "ok" THEN w.res ELSE None,
        store |-> x.store, lock |-> x.lock, sess |-> r.sess]

\* the Binding whose lock a session running this walk acquires first, if any
FirstBinding(schema, data) ==
    LET w == Match_match(schema, data)
    IN IF Len(w.binds) = 0 THEN NoBinding ELSE w.binds[1].ub.ns

\* ------------------------------------------------------------ state

VARIABLES
    store,  \* the instance dictionaries of the Binding objects
    lock,   \* Binding._lock of each Binding: Free or its holder
    last,   \* the last call made and how it ended
    sw,     \* the Switch object
    th      \* the threads, each running one match session

vars == <<store, lock, last, sw, th>>

AllFree == [b \in BindingSets |-> Free]
NoSwitch == [made |-> FALSE, data |-> None, fresh |-> FALSE, log |-> <<>>]
NoThreads == <<>>

\* a call that has not run yet
Pending(schema, data, guards, st) ==
    [op |-> "match", out |-> "pending", schema |-> schema, data |-> data,
     guards |-> guards, res |-> None, names |-> <<>>, binding |-> NoBinding,
     pre |-> st]

\* a call of match that has returned or raised; pre is the store it found
Called(op, schema, data, guards, st, m, out) ==
    [op |-> op, out |-> out, schema |-> schema, data |-> data,
     guards |-> guards, res |-> m.res, names |-> m.sess.names,
     binding |-> m.sess.binding, pre |-> st]

\* ------------------------------------------------------------ inputs

ax == Unbound("a", "x")
ay == Unbound("a", "y")
bx == Unbound("b", "x")
by == Unbound("b", "y")
I(n) == PyInt(n)

MSchemas == <<
    I(1), PyType("int"), Ellipsis, ax,
    PyList(<<>>), PyList(<<I(1), I(2)>>), PyList(<<I(1), I(2), PyType("int")>>),
    PyTuple(<<I(1), I(2)>>),
    PyList(<<ax, ay, I(42)>>), PyList(<<ax, bx>>), PyList(<<I(1), ax, bx>>),
    PyList(<<ax, ax>>), PyList(<<I(1), PyList(<<I(2), ax>>)>>),
    PyList(<<I(1), I(2), Ellipsis>>), PyList(<<Ellipsis, I(2), I(3)>>),
    PyList(<<I(1), Ellipsis, I(3)>>), PyList(<<ax, Ellipsis, ay>>),
    PyList(<<ax, PyList(<<ay, Ellipsis>>)>>),
    PyDict(<<"k", "z">>, <<I(1), PyType("int")>>),
    PyDict(<<"k", "z">>, <<I(1), ax>>),
    PyDict(<<"k", EllipsisKey>>, <<I(1), Ellipsis>>),
    PyDict(<<"k", EllipsisKey>>, <<I(1), PyType("int")>>),
    PyDict(<<"k", EllipsisKey>>, <<ax, ay>>),
    PyDict(<<"k", EllipsisKey>>, <<ax, bx>>) >>

MDatas == <<
    I(1), I(2), PyStr(<<"x">>),
    PyList(<<>>), PyList(<<I(1)>>), PyList(<<I(1), I(2)>>),
    PyList(<<I(1), I(2), I(3)>>), PyList(<<I(1), I(2), I(42)>>),
    PyList(<<I(2), I(2), I(3)>>), PyList(<<I(1), PyList(<<I(2), I(3)>>)>>),
    PyTuple(<<I(1), I(2)>>), PyList(<<I(1), PyTuple(<<I(2), I(3)>>)>>),
    PyDict(<<>>, <<>>), PyDict(<<"k">>, <<I(1)>>),
    PyDict(<<"k", "z">>, <<I(1), I(2)>>),
    PyDict(<<"k", "z">>, <<I(1), PyStr(<<"x">>)>>),
    PyDict(<<"k", "z", "w">>, <<I(1), I(2), I(3)>>),
    PyDict(<<"z">>, <<I(2)>>) >>

MGuards == <<
    <<>>,
    <<GuardEq("a", "x", 1)>>,
    <<GuardEq("a", "x", 2), GuardRaises>> >>

\* Binding(), Binding(x=1), Binding(y=2)
MStores == <<
    EmptyStore,
    [EmptyStore EXCEPT !["a"]["x"] = I(1)],
    [EmptyStore EXCEPT !["a"]["y"] = I(2)],
    [EmptyStore EXCEPT !["b"]["x"] = I(1)] >>

\* ------------------------------------------------------------ SpecMatch
\* One call of match(schema, data, *guards), for every schema, data, guards
\* and Bindings of the inputs above.

InitMatch ==
    /\ \E i \in 1..Len(MStores) : store = MStores[i]
    /\ lock = AllFree
    /\ \E i \in 1..Len(MSchemas), j \in 1..Len(MDatas), g \in 1..Len(MGuards) :
          last = Pending(MSchemas[i], MDatas[j], MGuards[g], store)
    /\ sw = NoSwitch
    /\ th = NoThreads

\* the call of match: the whole of it, with no other session running
CallMatch ==
    /\ last.out = "pending"
    /\ LET m == match(store, lock, last.schema, last.data, last.guards)
       IN /\ store' = m.store
          /\ lock' = m.lock
          /\ last' = Called("match", last.schema, last.data, last.guards, store, m, m.out)
    /\ UNCHANGED <<sw, th>>

NextMatch == CallMatch

SpecMatch == InitMatch /\ [][NextMatch]_vars

\* ------------------------------------------------------------ claims, SpecMatch

\* a call of match has returned or raised
Returned == last.op = "match" /\ last.out # "pending"

\* the placeholders that occur in a schema, each as <<namespace, name>>
RECURSIVE Placeholders(_)
Placeholders(schema) ==
    CASE schema.t = "unbound" -> {<<schema.ns, schema.name>>}
      [] schema.t = "seq" ->
           UNION {Placeholders(schema.items[i]) : i \in 1..Len(schema.items)}
      [] schema.t = "map" ->
           UNION {Placeholders(schema.vals[i]) : i \in 1..Len(schema.vals)}
      [] schema.t = "obj" ->
           UNION {Placeholders(schema.vals[i]) : i \in Attributes(schema)}
      [] OTHER -> {}

\* C1: when the top-level match fails with MatchError, every name this
\* attempt bound is unbound again: the names the session recorded are not
\* set, and no name is set that was not set before the call.
C1_FailedMatchUnwinds ==
    (Returned /\ last.out = "MatchError") =>
        /\ \A i \in 1..Len(last.names) :
              Binding_getattr(store, last.names[i].ns, last.names[i].name).t = "unbound"
        /\ Bound(store) \subseteq Bound(last.pre)

\* C1 witness: a match that bound names and then failed with MatchError
C1_Witness == Returned /\ last.out = "MatchError" /\ Len(last.names) > 0

\* C5: whenever match succeeds, the value returned is equal to the data.
C5_ReturnsData == (Returned /\ last.out = "ok") => PyEq(last.res, last.data)

\* C7: a sequence schema with no wildcard matches only data of exactly its
\* length; a longer schema fails with MatchError and longer data fails
\* with MatchError.
C7_ExactLength ==
    (Returned /\ last.schema.t = "seq" /\ ~HasEllipsis(last.schema)
        /\ IsSequence(last.data)) =>
        /\ last.out = "ok" => PyLen(last.data) = Len(last.schema.items)
        /\ Len(last.schema.items) > PyLen(last.data) => last.out = "MatchError"
        /\ PyLen(last.data) > Len(last.schema.items) => last.out = "MatchError"

\* a dict schema with a rest entry, against a dict that has every
\* enumerated key: the excess items of the data
HasRest(schema) == schema.t = "map" /\ EllipsisKey \in Range(schema.keys)
RestValue(schema) == GetItem(schema, EllipsisKey)
Enumerated(schema) == Range(schema.keys) \ {EllipsisKey}
Excess(schema, data) == DictWithout(data, Enumerated(schema))
RestCase ==
    /\ Returned
    /\ HasRest(last.schema)
    /\ last.data.t = "map"
    /\ Enumerated(last.schema) \subseteq Range(last.data.keys)

\* C8: with a rest entry of a non-wildcard value R and exactly one excess
\* key, R is the schema of the excess pair: the match succeeds only if the
\* excess value matches R and fails with MatchError otherwise.
C8_RestValueMatchesExcess ==
    (RestCase /\ RestValue(last.schema).t # "ellipsis"
        /\ Len(Excess(last.schema, last.data).keys) = 1) =>
        LET r == Match_match(RestValue(last.schema), Excess(last.schema, last.data).vals[1])
        IN /\ last.out = "ok" => r.out = "ok"
           /\ r.out = "MatchError" => last.out = "MatchError"

\* C9: a rest entry whose value is the wildcard matches data with every
\* enumerated key and one or more excess keys, and fails with MatchError
\* on data with every enumerated key and no excess key.
C9_WildcardRestNeedsExcess ==
    (RestCase /\ RestValue(last.schema).t = "ellipsis") =>
        (Len(Excess(last.schema, last.data).keys) = 0 => last.out = "MatchError")

\* the enumerated values of the schema match the data's, taken alone
EnumeratedMatch(schema, data) ==
    \A i \in 1..Len(schema.keys) :
        schema.keys[i] # EllipsisKey =>
            Match_match(schema.vals[i], GetItem(data, schema.keys[i])).out = "ok"

\* C9 as amended: a rest entry whose value is the wildcard matches data
\* with every enumerated key and any number of excess keys, none included,
\* when the enumerated values match; it fails with MatchError on data that
\* lacks an enumerated key.
C9_WildcardRestAnyExcess ==
    (Returned /\ HasRest(last.schema) /\ RestValue(last.schema).t = "ellipsis"
        /\ last.data.t = "map" /\ Placeholders(last.schema) = {}
        /\ EllipsisKey \notin Range(last.data.keys)) =>
        IF Enumerated(last.schema) \subseteq Range(last.data.keys)
        THEN (EnumeratedMatch(last.schema, last.data) /\ Len(last.guards) = 0)
                => (last.out = "ok" /\ PyEq(last.res, last.data))
        ELSE last.out = "MatchError"

\* C9 witness: a wildcard rest entry matched data with no excess key
C9_Witness ==
    /\ RestCase /\ RestValue(last.schema).t = "ellipsis"
    /\ Len(Excess(last.schema, last.data).keys) = 0
    /\ last.out = "ok"

\* C6: after a successful match every placeholder of the schema is bound,
\* to the data value at its position: an element of a sequence, the value
\* under its key, the excess value for a rest entry.
C6_PlaceholdersBound ==
    (Returned /\ last.out = "ok") =>
        /\ \A p \in Placeholders(last.schema) : store[p[1]][p[2]].t # "none"
        /\ (last.schema.t = "unbound") =>
              PyEq(store[last.schema.ns][last.schema.name], last.data)
        /\ (last.schema.t = "map" /\ last.data.t = "map") =>
              \A i \in 1..Len(last.schema.keys) :
                  LET v == last.schema.vals[i]
                      k == last.schema.keys[i]
                  IN (v.t = "unbound" /\ k # EllipsisKey) =>
                        PyEq(store[v.ns][v.name], GetItem(last.data, k))
        /\ (RestCase /\ RestValue(last.schema).t = "unbound"
                /\ Len(Excess(last.schema, last.data).keys) = 1) =>
              PyEq(store[RestValue(last.schema).ns][RestValue(last.schema).name],
                   Excess(last.schema, last.data).vals[1])
        /\ (last.schema.t = "seq" /\ ~HasEllipsis(last.schema) /\ last.data.t = "seq") =>
              \A i \in 1..Len(last.schema.items) :
                  LET v == last.schema.items[i]
                  IN v.t = "unbound" => PyEq(store[v.ns][v.name], last.data.items[i])

\* the Bindings whose placeholders occur in a schema
BindingsOf(schema) == {p[1] : p \in Placeholders(schema)}

ReachesSecondBinding(st, schema, data) ==
    LET binds == Match_match(schema, data).binds
    IN \E j \in 1..Len(binds) :
          /\ binds[j].ub.ns # binds[1].ub.ns
          /\ \A i \in 1..(j - 1) :
                /\ binds[i].ub.ns = binds[1].ub.ns
                /\ Binding_getattr(st, binds[i].ub.ns, binds[i].ub.name).t = "unbound"
                /\ \A h \in 1..(i - 1) : binds[h].ub.name # binds[i].ub.name

C13_ErrorLeavesNoBindings ==
    (Returned /\ last.out \in {"SchemaError", "BindError"}) =>
        Bound(store) \subseteq Bound(last.pre)

\* the indices of the wildcards among the elements of a sequence schema
WildcardsAt(schema) == {i \in 1..Len(schema.items) : schema.items[i].t = "ellipsis"}

\* a sequence schema with exactly one wildcard, no placeholder, no guard
OneWildcardCase ==
    /\ Returned
    /\ last.schema.t = "seq"
    /\ Cardinality(WildcardsAt(last.schema)) = 1
    /\ Placeholders(last.schema) = {}
    /\ Len(last.guards) = 0

\* data has the elements around the wildcard at index i of the schema: its
\* first i - 1 elements match those before the wildcard, its last ones
\* those after it
AroundWildcard(schema, data) ==
    LET n == Len(schema.items)
        m == PyLen(data)
        i == CHOOSE k \in WildcardsAt(schema) : TRUE
    IN /\ m >= n - 1
       /\ \A k \in 1..(i - 1) :
             Match_match(schema.items[k], Items(data)[k]).out = "ok"
       /\ \A k \in (i + 1)..n :
             Match_match(schema.items[k], Items(data)[m - (n - k)]).out = "ok"

\* C14: a sequence schema with exactly one wildcard matches exactly the
\* sequences that have at least len(schema) - 1 elements, whose first
\* elements match the schema before the wildcard and whose last elements
\* match the schema after it; whatever the wildcard covers is accepted, and
\* data that is too short fails with MatchError.
C14_OneWildcard ==
    (OneWildcardCase /\ IsSequence(last.data)) =>
        /\ last.out = "ok" <=> AroundWildcard(last.schema, last.data)
        /\ PyLen(last.data) < Len(last.schema.items) - 1 => last.out = "MatchError"

\* a mapping schema with no rest entry
NoRestCase == Returned /\ last.schema.t = "map" /\ ~HasRest(last.schema)

\* the data is a mapping with the keys of the schema and no other
SameKeys(schema, data) ==
    IsMapping(data) /\ Range(data.keys) = Range(schema.keys)

\* every value of the schema matches the value of the data under its key
ValuesMatch(schema, data) ==
    \A i \in 1..Len(schema.keys) :
        Match_match(schema.vals[i], GetItem(data, schema.keys[i])).out = "ok"

\* C15: a mapping schema with no rest entry matches exactly the mappings
\* that have the schema's keys and no other, each value matching the
\* schema's value for its key, and returns the data; a key of the schema
\* missing from the data, or a key of the data that the schema does not
\* have, fails with MatchError.
C15_MappingExactKeys ==
    NoRestCase =>
        /\ ~SameKeys(last.schema, last.data) => last.out = "MatchError"
        /\ (Placeholders(last.schema) = {} /\ Len(last.guards) = 0) =>
              /\ last.out = "ok" <=>
                    (SameKeys(last.schema, last.data) /\ ValuesMatch(last.schema, last.data))
              /\ last.out = "ok" => PyEq(last.res, last.data)
              /\ last.out \in {"ok", "MatchError"}

\* C15 witness: a mapping schema with no rest entry matched its data
C15_Witness ==
    /\ NoRestCase /\ Placeholders(last.schema) = {} /\ Len(last.guards) = 0
    /\ Len(last.schema.keys) > 1
    /\ last.out = "ok"

\* C16: with a rest entry of a non-wildcard value and every enumerated key
\* in the data, the match fails with MatchError when the data has no
\* excess key and when it has more than one.
C16_RestNeedsOneExcess ==
    (RestCase /\ RestValue(last.schema).t # "ellipsis"
        /\ Len(Excess(last.schema, last.data).keys) # 1) =>
        last.out = "MatchError"

\* the Bindings once the schema of the last call has matched and every
\* placeholder is bound; exc is the exception when it has not matched
Structural ==
    LET w == Match_match(last.schema, last.data)
        r == RunBinds(last.pre, AllFree, Match_init, w.binds)
    IN [exc |-> IF r.exc # "none" THEN r.exc
                ELSE IF w.out # "ok" THEN w.out ELSE "none",
        store |-> r.store]

\* what each guard of the last call answers on those Bindings
GuardAnswers ==
    [i \in 1..Len(last.guards) |-> CallGuard(Structural.store, last.guards[i])]

\* the first guard that does not return true, 0 if there is none
FirstNotTrue ==
    IF \A i \in 1..Len(last.guards) : GuardAnswers[i] = "true" THEN 0
    ELSE CHOOSE i \in 1..Len(last.guards) :
            /\ GuardAnswers[i] # "true"
            /\ \A j \in 1..(i - 1) : GuardAnswers[j] = "true"

\* C20: the guards are called only once the schema has matched and its
\* bindings are made, in the order given: when the match itself fails no
\* guard is called; the first guard that returns false ends the call with
\* MatchError, the guards after it are not called and the bindings are
\* unwound; when every guard returns true the bindings stay.
C20_GuardsAfterMatch ==
    Returned =>
        IF Structural.exc # "none" THEN last.out = Structural.exc
        ELSE /\ FirstNotTrue = 0 =>
                   (last.out = "ok" /\ store = Structural.store)
             /\ (FirstNotTrue # 0 /\ GuardAnswers[FirstNotTrue] = "false") =>
                   (last.out = "MatchError" /\ store = last.pre)
             /\ (FirstNotTrue # 0 /\ GuardAnswers[FirstNotTrue] = "raise") =>
                   last.out = "GuardError"

\* C20 witness: the schema matched and bound a name, the first guard
\* returned false on the bindings, the guard after it, which raises, was not
\* called, and the name is unbound again
C20_Witness ==
    /\ Returned /\ Len(last.guards) = 2 /\ Len(last.names) > 0
    /\ Structural.exc = "none"
    /\ GuardAnswers[1] = "false" /\ GuardAnswers[2] = "raise"
    /\ last.out = "MatchError" /\ store = last.pre

\* C24: whatever the outcome of a match call, every name that held a value
\* when the call started holds the same value when it ends.
C24_BoundNamesKept ==
    Returned =>
        \A p \in Bound(last.pre) : store[p[1]][p[2]] = last.pre[p[1]][p[2]]

\* C24 witness: a.y held a value when the call started; the call bound
\* a.x, failed with MatchError and was unwound, and a.y holds its value
C24_Witness ==
    /\ Returned /\ last.out = "MatchError" /\ Len(last.names) > 0
    /\ last.binding = "a"
    /\ last.pre["a"]["y"] = I(2) /\ store["a"]["y"] = I(2)

\* ------------------------------------------------------------ SpecBinding
\* Attributes of the Binding objects set and deleted by the caller:
\* binding.name = value and del binding.name, in any order.

MaxValue == 2

NoCall == [op |-> "none", out |-> "none", ns |-> "none", name |-> "none"]

InitBinding ==
    /\ store = EmptyStore
    /\ lock = AllFree
    /\ last = [op |-> "none", out |-> "none", ns |-> "none", name |-> "none",
               value |-> None, pre |-> store, prior |-> NoCall]
    /\ sw = NoSwitch
    /\ th = NoThreads

\* what last keeps of the call before it
Prior == [op |-> last.op, out |-> last.out, ns |-> last.ns, name |-> last.name]

\* binding.name = value
SetAttr(b, n, v) ==
    /\ LET r == Binding_setattr(store, b, n, PyInt(v))
       IN /\ store' = r.store
          /\ last' = [op |-> "setattr", out |-> r.exc, ns |-> b, name |-> n,
                      value |-> PyInt(v), pre |-> store, prior |-> Prior]
    /\ UNCHANGED <<lock, sw, th>>

\* del binding.name
DelAttr(b, n) ==
    /\ LET r == Binding_delattr(store, b, n)
       IN /\ store' = r.store
          /\ last' = [op |-> "delattr", out |-> r.exc, ns |-> b, name |-> n,
                      value |-> None, pre |-> store, prior |-> Prior]
    /\ UNCHANGED <<lock, sw, th>>

NextBinding ==
    \/ \E b \in BindingSets, n \in Names, v \in 1..MaxValue : SetAttr(b, n, v)
    \/ \E b \in BindingSets, n \in Names : DelAttr(b, n)

SpecBinding == InitBinding /\ [][NextBinding]_vars

\* C3: setting a name that holds a value raises BindError and leaves the
\* Binding as it was; setting a name that is unbound (never set, or deleted
\* since it was set) succeeds, the name then reads as the new value and no
\* other name changes.
C3_RebindProtected ==
    last.op = "setattr" =>
        IF last.pre[last.ns][last.name].t # "none"
        THEN last.out = "BindError" /\ store = last.pre
        ELSE /\ last.out = "none"
             /\ Binding_getattr(store, last.ns, last.name) = last.value
             /\ \A b \in BindingSets, n \in Names :
                   (b # last.ns \/ n # last.name) => store[b][n] = last.pre[b][n]

\* C3 witness: a name was set again after it had been set and deleted, and
\* reads as the new value
C3_Witness ==
    /\ last.op = "setattr" /\ last.out = "none"
    /\ last.prior.op = "delattr" /\ last.prior.out = "none"
    /\ last.prior.ns = last.ns /\ last.prior.name = last.name
    /\ store[last.ns][last.name] = PyInt(2)

\* ------------------------------------------------------------ SpecInstance
\* One call of match(schema, data, *guards) with an instance of a user
\* class as the schema.

\* Foo(bar=1), Foo(bar=1, _baz=2), Foo(bar=a.x), Foo(bar=a.x, baz=a.y),
\* Sub(bar=1), p = Plain(bar=1), Plain(bar=1, baz=int),
\* Plain(bar=a.x, baz=2), Plain(bar=Plain(bar=1)), Plain(bar=[1, ...]),
\* Plain(bar=a.x, baz=b.x), Plain(), Plain(bar=1, _baz=2)
OSchemas == <<
    PyObject("Foo", 1, <<"bar">>, <<I(1)>>),
    PyObject("Foo", 2, <<"_baz", "bar">>, <<I(2), I(1)>>),
    PyObject("Foo", 3, <<"bar">>, <<ax>>),
    PyObject("Foo", 4, <<"bar", "baz">>, <<ax, ay>>),
    PyObject("Sub", 5, <<"bar">>, <<I(1)>>),
    PyObject("Plain", 6, <<"bar">>, <<I(1)>>),
    PyObject("Plain", 7, <<"bar", "baz">>, <<I(1), PyType("int")>>),
    PyObject("Plain", 8, <<"bar", "baz">>, <<ax, I(2)>>),
    PyObject("Plain", 9, <<"bar">>, <<PyObject("Plain", 10, <<"bar">>, <<I(1)>>)>>),
    PyObject("Plain", 11, <<"bar">>, <<PyList(<<I(1), Ellipsis>>)>>),
    PyObject("Plain", 12, <<"bar", "baz">>, <<ax, bx>>),
    PyObject("Plain", 13, <<>>, <<>>),
    PyObject("Plain", 14, <<"_baz", "bar">>, <<I(2), I(1)>>) >>

\* Foo(bar=1), Foo(bar=2), Sub(bar=1), Sub(bar=2), Sub(bar=1, baz=5),
\* Plain(bar=1), Plain(bar=2), Plain(baz=2), Plain(bar=1, baz=2),
\* PSub(bar=1), Plain(bar=Plain(bar=1)), Plain(bar=Plain(bar=2)),
\* Plain(bar=[1, 2]), the schema p itself, 1, [1, 2]
ODatas == <<
    PyObject("Foo", 21, <<"bar">>, <<I(1)>>),
    PyObject("Foo", 22, <<"bar">>, <<I(2)>>),
    PyObject("Sub", 23, <<"bar">>, <<I(1)>>),
    PyObject("Sub", 24, <<"bar">>, <<I(2)>>),
    PyObject("Sub", 25, <<"bar", "baz">>, <<I(1), I(5)>>),
    PyObject("Plain", 26, <<"bar">>, <<I(1)>>),
    PyObject("Plain", 27, <<"bar">>, <<I(2)>>),
    PyObject("Plain", 28, <<"baz">>, <<I(2)>>),
    PyObject("Plain", 29, <<"bar", "baz">>, <<I(1), I(2)>>),
    PyObject("PSub", 30, <<"bar">>, <<I(1)>>),
    PyObject("Plain", 31, <<"bar">>, <<PyObject("Plain", 32, <<"bar">>, <<I(1)>>)>>),
    PyObject("Plain", 33, <<"bar">>, <<PyObject("Plain", 34, <<"bar">>, <<I(2)>>)>>),
    PyObject("Plain", 35, <<"bar">>, <<PyList(<<I(1), I(2)>>)>>),
    PyObject("Plain", 6, <<"bar">>, <<I(1)>>),
    I(1),
    PyList(<<I(1), I(2)>>) >>

OGuards == << <<>>, <<GuardEq("a", "x", 2)>> >>

\* Binding(), Binding(x=1)
OStores == << EmptyStore, [EmptyStore EXCEPT !["a"]["x"] = I(1)] >>

InitInstance ==
    /\ \E i \in 1..Len(OStores) : store = OStores[i]
    /\ lock = AllFree
    /\ \E i \in 1..Len(OSchemas), j \in 1..Len(ODatas), g \in 1..Len(OGuards) :
          last = Pending(OSchemas[i], ODatas[j], OGuards[g], store)
    /\ sw = NoSwitch
    /\ th = NoThreads

NextInstance == CallMatch

SpecInstance == InitInstance /\ [][NextInstance]_vars

\* type(v) of an instance
TypeOf(v) == v.cls

\* C17: matching an instance schema needs data of exactly the schema's
\* type: data of another type, an instance of a subclass of the schema's
\* type included, fails with MatchError.
C17_ExactType ==
    (Returned /\ last.schema.t = "obj") =>
        ((last.data.t # "obj" \/ TypeOf(last.data) # TypeOf(last.schema))
            => last.out = "MatchError")

\* an instance schema and data of its type that is not equal to it
InstanceCase ==
    /\ Returned
    /\ last.schema.t = "obj" /\ last.data.t = "obj"
    /\ TypeOf(last.data) = TypeOf(last.schema)
    /\ ~PyEq(last.schema, last.data)

\* every public attribute of the schema that is not callable is an
\* attribute of the data and matches it
AttributesMatch(schema, data) ==
    \A i \in 1..Len(schema.keys) :
        (~StartsWithUnderscore(schema.keys[i]) /\ ~Callable(schema.vals[i])) =>
            /\ HasAttr(data, schema.keys[i])
            /\ Match_match(schema.vals[i], GetAttr(data, schema.keys[i])).out = "ok"

\* C18: an instance schema that is not equal to the data matches exactly
\* when each of its public, non-callable attributes matches the attribute
\* of the data of the same name, and then returns the data: private
\* attributes are ignored, an attribute that the data lacks and a nested
\* mismatch fail with MatchError, and a placeholder held in an attribute of
\* the schema is bound to the data's attribute.
C18_InstanceAttributes ==
    InstanceCase =>
        /\ last.out = "ok" =>
              /\ AttributesMatch(last.schema, last.data)
              /\ last.res = last.data
              /\ \A i \in 1..Len(last.schema.keys) :
                    (~StartsWithUnderscore(last.schema.keys[i])
                        /\ last.schema.vals[i].t = "unbound") =>
                        store[last.schema.vals[i].ns][last.schema.vals[i].name]
                            = GetAttr(last.data, last.schema.keys[i])
        /\ (~AttributesMatch(last.schema, last.data)
                /\ Placeholders(last.schema) \cap Bound(last.pre) = {}) =>
              last.out = "MatchError"
        /\ (AttributesMatch(last.schema, last.data)
                /\ Placeholders(last.schema) = {} /\ Len(last.guards) = 0) =>
              last.out = "ok"

\* C18 witness: an instance schema with a placeholder and a literal as
\* attributes matched data that is not equal to it, and the placeholder is
\* bound to the data's attribute
C18_Witness ==
    /\ InstanceCase /\ last.out = "ok"
    /\ Len(last.schema.keys) = 2 /\ Len(last.names) = 1
    /\ store["a"]["x"] = GetAttr(last.data, "bar")

\* ------------------------------------------------------------ Switch

\* Switch.case with except Exception in place of except MatchError
Switch_case_CatchAll(st, lk, data, schema, guards) ==
    LET m == match(st, lk, schema, data, guards)
    IN [m EXCEPT !.out = IF m.out = "ok" THEN "True" ELSE "False"]

\* a case that also takes a SchemaError for a failed alternative
Switch_case_CatchSchemaError(st, lk, data, schema, guards) ==
    LET m == match(st, lk, schema, data, guards)
    IN [m EXCEPT !.out = IF m.out \in {"MatchError", "SchemaError"} THEN "False"
                         ELSE IF m.out = "ok" THEN "True" ELSE m.out]

\* Switch.case: out is "True" or "False" when it returns, the exception
\* when it raises
Switch_case(st, lk, data, schema, guards) ==
    LET m == match(st, lk, schema, data, guards)
    IN [m EXCEPT !.out = IF m.out = "MatchError" THEN "False"
                         ELSE IF m.out = "ok" THEN "True" ELSE m.out]

\* ------------------------------------------------------------ SpecSwitch
\* A Switch made over some data, then case called with one schema after
\* another, all using the same Bindings.

MaxCases == 2

SSchemas == <<
    ax,
    PyList(<<I(1), ax>>), PyList(<<I(2), ax>>),
    PyList(<<ax, I(1)>>), PyList(<<ax, ay>>), PyList(<<ay, ax, I(1)>>),
    PyList(<<ax, bx>>) >>

SDatas == << I(2), PyList(<<I(2), I(2)>>), PyList(<<I(1), I(2)>>),
             PyList(<<I(1), I(2), I(3)>>) >>

SGuards == << <<>>, <<GuardEq("a", "x", 1)>>, <<GuardEq("a", "x", 2)>> >>

\* Binding(), Binding(y=2)
SStores == << EmptyStore, [EmptyStore EXCEPT !["a"]["y"] = I(2)] >>

InitSwitch ==
    /\ \E i \in 1..Len(SStores) : store = SStores[i]
    /\ lock = AllFree
    /\ last = [op |-> "none", out |-> "none"]
    /\ sw = NoSwitch
    /\ th = NoThreads

\* Switch(data). fresh records that no name was bound at that time; log is
\* the history of the case calls: how each ended and how many names its
\* session had bound.
Switch_init(data) ==
    /\ ~sw.made
    /\ sw' = [made |-> TRUE, data |-> data, fresh |-> Bound(store) = {}, log |-> <<>>]
    /\ last' = [op |-> "switch", out |-> "none"]
    /\ UNCHANGED <<store, lock, th>>

\* switch.case(schema, *guards)
Case(schema, guards) ==
    /\ sw.made
    /\ Len(sw.log) < MaxCases
    /\ \E c \in {Switch_case(store, lock, sw.data, schema, guards)} :
          /\ store' = c.store
          /\ lock' = c.lock
          /\ last' = Called("case", schema, sw.data, guards, store, c, c.out)
          /\ sw' = [sw EXCEPT !.log = Append(@, [out |-> c.out, bound |-> Len(c.sess.names)])]
    /\ UNCHANGED th

NextSwitch ==
    \/ \E j \in 1..Len(SDatas) : Switch_init(SDatas[j])
    \/ \E i \in 1..Len(SSchemas), g \in 1..Len(SGuards) : Case(SSchemas[i], SGuards[g])

SpecSwitch == InitSwitch /\ [][NextSwitch]_vars

\* the names a session recorded, each as <<namespace, name>>
NamesOf(names) == {<<names[i].ns, names[i].name>> : i \in 1..Len(names)}

\* every case call before the last returned false
AllFalseBefore == \A i \in 1..(Len(sw.log) - 1) : sw.log[i].out = "False"

\* C10: over Bindings with no name bound when the Switch is made: when
\* case returns false, every binding of the attempt is cleared before the
\* next case runs; when case returns true after cases that returned false,
\* the names bound are exactly those the successful schema bound.
C10_SwitchAlternation ==
    (last.op = "case" /\ sw.fresh /\ AllFalseBefore) =>
        /\ last.out = "False" =>
              /\ \A p \in NamesOf(last.names) : store[p[1]][p[2]].t = "none"
              /\ Bound(store) = {}
        /\ last.out = "True" => Bound(store) = NamesOf(last.names)

\* C10 witness: a first case bound a name and returned false, the second
\* returned true and its bindings are the only ones
C10_Witness ==
    /\ last.op = "case" /\ sw.fresh /\ Len(sw.log) = 2
    /\ sw.log[1].out = "False" /\ sw.log[1].bound > 0
    /\ last.out = "True" /\ Len(last.names) > 0

\* C11: over Bindings with no name bound when the Switch is made: when
\* case returns false no name is bound afterwards, the names bound by an
\* earlier successful case included.
C11_FalseClearsEveryName ==
    (last.op = "case" /\ sw.fresh /\ last.out = "False") => Bound(store) = {}

\* how the match that the last case made ended
CaseMatchOut == match(last.pre, AllFree, last.schema, sw.data, last.guards).out

\* C19: case returns false exactly when its match raised MatchError; a
\* SchemaError of the match, raised for a schema with two Bindings, leaves
\* case as SchemaError.
C19_CaseCatchesOnlyMatchError ==
    last.op = "case" =>
        /\ last.out = "False" <=> CaseMatchOut = "MatchError"
        /\ CaseMatchOut = "SchemaError" => last.out = "SchemaError"

\* C19 witness: a case over a schema with two Bindings raised SchemaError
\* after a case that returned false
C19_Witness ==
    /\ last.op = "case" /\ last.out = "SchemaError"
    /\ Cardinality(BindingsOf(last.schema)) = 2
    /\ Len(sw.log) = 2 /\ sw.log[1].out = "False"

\* ------------------------------------------------------------ SpecThreads
\* Threads that each call match once, at the same time, over the same
\* Bindings. A thread can be switched out between any two of the steps
\* below; the walk of the schema over the data reads nothing shared, and
\* its bind calls are made one by one.
\*   "bind"     Match.bind is entered for the next placeholder, or the
\*              walk ends (lines 312-316, 327-349)
\*   "acquire"  acquire_binding_lock (line 304), which blocks
\*   "check"    Binding.__setattr__: the test of line 72
\*   "set"      Binding.__setattr__: line 75, then line 321
\*   "exit"     Match.__exit__: lines 147-149
\*   "release"  Match.__exit__: lines 150-151
\*   "done"     match has returned or raised

NThreads == 2
Threads == 1..NThreads

TSchemas == <<
    ax,
    PyList(<<ax, I(1)>>),
    PyList(<<ax, bx>>), PyList(<<by, ay>>),
    PyList(<<I(1), I(2)>>) >>

TDatas == << I(1), PyList(<<I(1), I(2)>>) >>

TGuards == << <<>>, <<GuardEq("a", "x", 1)>>, <<GuardRaises>> >>

\* the calls the threads make, each <<schema, data, guards>> as indices
\* into the three lists above
TCalls == <<
    <<1, 1, 1>>, <<1, 2, 1>>,   \* match(a.x, 1), match(a.x, [1, 2])
    <<1, 2, 2>>,                \* match(a.x, [1, 2], lambda: a.x == 1)
    <<1, 1, 3>>,                \* match(a.x, 1, guard that raises)
    <<2, 2, 1>>,                \* match([a.x, 1], [1, 2])
    <<3, 2, 1>>, <<3, 1, 1>>,   \* match([a.x, b.x], [1, 2]), match([a.x, b.x], 1)
    <<4, 2, 1>>,                \* match([b.y, a.y], [1, 2])
    <<5, 2, 1>>, <<5, 1, 1>> >> \* match([1, 2], [1, 2]), match([1, 2], 1)

Idle == [pc |-> "idle", schema |-> None, data |-> None, guards |-> <<>>,
         binds |-> <<>>, wout |-> "none", res |-> None, i |-> 0,
         sess |-> Match_init, etype |-> "none", out |-> "none"]

InitThreads ==
    /\ store = EmptyStore
    /\ lock = AllFree
    /\ last = [op |-> "none", out |-> "none"]
    /\ sw = NoSwitch
    /\ th = [t \in Threads |-> Idle]

\* a lock that never makes a thread wait
CanAcquire_NoLock(lk, b) == TRUE

\* Lock.acquire() returns only when the lock is free
CanAcquire(lk, b) == lk[b] = Free

\* acquire_binding_lock overridden to do nothing
acquire_binding_lock_Pass(lk, b, t) == lk

\* Match.acquire_binding_lock
acquire_binding_lock(lk, b, t) == [lk EXCEPT ![b] = t]

\* a call that takes the lock of the Binding a on entry, whatever the
\* schema, and waits for it
T_Call_Eager(t, schema, data, guards) ==
    /\ th[t].pc = "idle"
    /\ CanAcquire(lock, "a")
    /\ lock' = acquire_binding_lock(lock, "a", t)
    /\ LET w == Match_match(schema, data)
       IN th' = [th EXCEPT ![t] =
                    [pc |-> "bind", schema |-> schema, data |-> data, guards |-> guards,
                     binds |-> w.binds, wout |-> w.out, res |-> w.res, i |-> 1,
                     sess |-> [Match_init EXCEPT !.binding = "a"],
                     etype |-> "none", out |-> "none"]]
    /\ UNCHANGED <<store, last, sw>>

\* the thread calls match(schema, data, *guards): with Match() as session
T_Call(t, schema, data, guards) ==
    /\ th[t].pc = "idle"
    /\ LET w == Match_match(schema, data)
       IN th' = [th EXCEPT ![t] =
                    [pc |-> "bind", schema |-> schema, data |-> data, guards |-> guards,
                     binds |-> w.binds, wout |-> w.out, res |-> w.res, i |-> 1,
                     sess |-> Match_init, etype |-> "none", out |-> "none"]]
    /\ UNCHANGED <<store, lock, last, sw>>

\* Match.bind, lines 312-316, for the next placeholder of the walk
T_Adopt(t) ==
    /\ th[t].pc = "bind"
    /\ th[t].i <= Len(th[t].binds)
    /\ LET a == bind_adopt(th[t].sess, th[t].binds[th[t].i].ub)
       IN th' = [th EXCEPT ![t].sess = a.sess,
                           ![t].etype = IF a.exc # "none" THEN a.exc ELSE @,
                           ![t].pc = IF a.exc # "none" THEN "exit"
                                     ELSE IF a.acquire THEN "acquire" ELSE "check"]
    /\ UNCHANGED <<store, lock, last, sw>>

\* Match.acquire_binding_lock, line 304
T_Acquire(t) ==
    /\ th[t].pc = "acquire"
    /\ CanAcquire(lock, th[t].sess.binding)
    /\ lock' = acquire_binding_lock(lock, th[t].sess.binding, t)
    /\ th' = [th EXCEPT ![t].pc = "check"]
    /\ UNCHANGED <<store, last, sw>>

\* Binding.__setattr__, lines 72-74
T_Check(t) ==
    /\ th[t].pc = "check"
    /\ LET ub == th[t].binds[th[t].i].ub
           r == Binding_setattr(store, ub.ns, ub.name, th[t].binds[th[t].i].value)
       IN th' = [th EXCEPT ![t].etype = IF r.exc # "none" THEN r.exc ELSE @,
                           ![t].pc = IF r.exc # "none" THEN "exit" ELSE "set"]
    /\ UNCHANGED <<store, lock, last, sw>>

\* Binding.__setattr__, line 75, and Match.bind, lines 321-323
T_Set(t) ==
    /\ th[t].pc = "set"
    /\ LET ub == th[t].binds[th[t].i].ub
       IN /\ store' = [store EXCEPT ![ub.ns][ub.name] = th[t].binds[th[t].i].value]
          /\ th' = [th EXCEPT ![t].sess.names = Append(@, ub),
                              ![t].i = @ + 1,
                              ![t].pc = "bind"]
    /\ UNCHANGED <<lock, last, sw>>

\* the walk ends: the exception it raises, or the guards (lines 401-404)
T_Body(t) ==
    /\ th[t].pc = "bind"
    /\ th[t].i > Len(th[t].binds)
    /\ th' = [th EXCEPT ![t].etype = IF th[t].wout # "ok" THEN th[t].wout
                                     ELSE RunGuards(store, th[t].guards),
                        ![t].pc = "exit"]
    /\ UNCHANGED <<store, lock, last, sw>>

\* Match.__exit__, lines 147-149
T_Unwind(t) ==
    /\ th[t].pc = "exit"
    /\ LET u == IF th[t].etype = "MatchError" THEN Unwind(store, th[t].sess.names)
                ELSE [exc |-> "none", store |-> store]
       IN /\ store' = u.store
          /\ th' = [th EXCEPT ![t].pc = IF u.exc # "none" THEN "done" ELSE "release",
                              ![t].out = IF u.exc # "none" THEN u.exc ELSE @]
    /\ UNCHANGED <<lock, last, sw>>

\* a release made only when the body returned or raised MatchError
T_Release_NotOnError(t) ==
    /\ th[t].pc = "release"
    /\ lock' = IF th[t].sess.binding # NoBinding /\ th[t].etype \in {"ok", "MatchError"}
               THEN [lock EXCEPT ![th[t].sess.binding] = Free] ELSE lock
    /\ th' = [th EXCEPT ![t].pc = "done", ![t].out = th[t].etype]
    /\ UNCHANGED <<store, last, sw>>

\* Match.__exit__, lines 150-151, and the return or the raise of match
T_Release(t) ==
    /\ th[t].pc = "release"
    /\ lock' = IF th[t].sess.binding # NoBinding
               THEN [lock EXCEPT ![th[t].sess.binding] = Free] ELSE lock
    /\ th' = [th EXCEPT ![t].pc = "done", ![t].out = th[t].etype]
    /\ UNCHANGED <<store, last, sw>>

NextThreads ==
    \/ \E t \in Threads, c \in 1..Len(TCalls) :
          T_Call(t, TSchemas[TCalls[c][1]], TDatas[TCalls[c][2]], TGuards[TCalls[c][3]])
    \/ \E t \in Threads : T_Adopt(t)
    \/ \E t \in Threads : T_Acquire(t)
    \/ \E t \in Threads : T_Check(t)
    \/ \E t \in Threads : T_Set(t)
    \/ \E t \in Threads : T_Body(t)
    \/ \E t \in Threads : T_Unwind(t)
    \/ \E t \in Threads : T_Release(t)

SpecThreads == InitThreads /\ [][NextThreads]_vars

\* threads t and u have both called match(p, data) for the same
\* placeholder p, with no guards, and no other thread binds anything
Race(t, u) ==
    /\ t # u
    /\ th[t].pc # "idle" /\ th[u].pc # "idle"
    /\ th[t].schema.t = "unbound" /\ th[u].schema.t = "unbound"
    /\ th[t].schema = th[u].schema
    /\ Len(th[t].guards) = 0 /\ Len(th[u].guards) = 0
    /\ \A v \in Threads \ {t, u} : Len(th[v].binds) = 0

\* C2: two sessions on separate threads that bind the same name of the
\* same Binding, unbound at first: in every interleaving exactly one
\* succeeds, the other fails with BindError, and the name is bound to the
\* value of the one that succeeded.
C2_OneWinner ==
    \A t, u \in Threads :
        (Race(t, u) /\ th[t].pc = "done" /\ th[u].pc = "done") =>
            /\ {th[t].out, th[u].out} = {"ok", "BindError"}
            /\ th[t].out = "ok" =>
                  PyEq(store[th[t].schema.ns][th[t].schema.name], th[t].data)

\* C2 witness: the race has run to its end with different data, the second
\* thread won and the name holds its value
C2_Witness ==
    /\ Race(1, 2) /\ th[1].pc = "done" /\ th[2].pc = "done"
    /\ ~PyEq(th[1].data, th[2].data)
    /\ th[1].out = "BindError" /\ th[2].out = "ok"
    /\ PyEq(store["a"]["x"], th[2].data)

\* the exits of match: it returns, or raises one of these
Exits == {"ok", "MatchError", "SchemaError", "BindError", "GuardError"}

\* C12: a session that has ended, however it ended (return, MatchError,
\* SchemaError, BindError, exception of a guard), holds no lock; once every
\* session that started has ended, every lock is free.
C12_LockReleasedOnEveryExit ==
    /\ \A t \in Threads : th[t].pc = "done" =>
          /\ th[t].out \in Exits
          /\ \A b \in BindingSets : lock[b] # t
    /\ (\A t \in Threads : th[t].pc \in {"idle", "done"}) => lock = AllFree

\* C12 witness: sessions that acquired a lock have ended with SchemaError
\* and with the exception of a guard, and the locks are free
C12_Witness ==
    /\ th[1].pc = "done" /\ th[1].out = "GuardError" /\ th[1].sess.binding = "a"
    /\ th[2].pc = "done" /\ th[2].out = "SchemaError" /\ th[2].sess.binding = "b"
    /\ lock = AllFree

\* ------------------------------------------------------------ SpecThreadsFair
\* The threads under a fair scheduler: a thread that can take its next
\* step, and stays able to, takes it. A thread in Lock.acquire can take
\* its step when the lock is free.

ThreadStep(t) ==
    \/ T_Adopt(t) \/ T_Acquire(t) \/ T_Check(t) \/ T_Set(t)
    \/ T_Body(t) \/ T_Unwind(t) \/ T_Release(t)

SpecThreadsFair ==
    InitThreads /\ [][NextThreads]_vars /\ \A t \in Threads : WF_vars(ThreadStep(t))

\* the locks thread t holds
Held(t) == {b \in BindingSets : lock[b] = t}

\* no session holds two locks, none waits for a lock while it holds one
OneLockNoWait ==
    \A t \in Threads :
        /\ Cardinality(Held(t)) <= 1
        /\ th[t].pc = "acquire" => Held(t) = {}

\* C21: a session never holds the locks of two Bindings and never waits
\* for a lock while it holds one, and every session that has started ends,
\* whatever the schemas of the sessions running with it, [a.x, b.x] and
\* [b.y, a.y] among them.
C21_NoDeadlock ==
    /\ []OneLockNoWait
    /\ \A t \in Threads : (th[t].pc # "idle") ~> (th[t].pc = "done")

\* C21 witness: the sessions of [a.x, b.x] and [b.y, a.y] each hold the
\* lock of their first Binding and have come to the placeholder of the
\* other
C21_Witness ==
    /\ th[1].pc = "bind" /\ th[2].pc = "bind"
    /\ th[1].schema = TSchemas[3] /\ th[2].schema = TSchemas[4]
    /\ th[1].i = 2 /\ th[2].i = 2
    /\ lock["a"] = 1 /\ lock["b"] = 2

\* C22: a lock is taken only by a session at its first bind, the lock of
\* the Binding of that placeholder, while the session holds none and has
\* bound nothing; a session whose match reaches no placeholder never waits
\* for a lock, never holds one, and none of its steps changes a lock.
C22_LazyAcquire ==
    [][\A t \in Threads :
          /\ \A b \in BindingSets :
                (lock[b] # t /\ lock'[b] = t) =>
                    /\ th[t].pc = "acquire" /\ th[t].i = 1
                    /\ th[t].binds[1].ub.ns = b
                    /\ Held(t) = {} /\ Len(th[t].sess.names) = 0
          /\ Len(th'[t].binds) = 0 =>
                /\ th'[t].pc # "acquire" /\ \A b \in BindingSets : lock'[b] # t
                /\ th'[t] # th[t] => lock' = lock]_vars

\* C22 witness: a session with no placeholder in its schema has run to its
\* end while another session holds a lock
C22_Witness ==
    /\ th[1].pc = "set" /\ lock["a"] = 1
    /\ th[2].pc = "done" /\ th[2].out = "ok" /\ Len(th[2].binds) = 0

\* thread t takes a step
Steps(t) == th'[t] # th[t]

\* C23: a session sets and unsets names of a Binding only while it holds
\* the lock of that Binding, and a session that failed with MatchError
\* gives the lock back only when every name it bound is unset again: the
\* next session to take the lock finds none of them.
C23_WritesUnderLock ==
    [][/\ \A b \in BindingSets :
             store'[b] # store[b] =>
                 \E t \in Threads :
                     /\ Steps(t) /\ lock[b] = t /\ lock'[b] = t
                     /\ \A u \in Threads \ {t} : ~Steps(u)
       /\ \A t \in Threads :
             (th[t].pc = "release" /\ Steps(t) /\ th[t].etype = "MatchError") =>
                 \A k \in 1..Len(th[t].sess.names) :
                     store[th[t].sess.names[k].ns][th[t].sess.names[k].name].t = "none"]_vars

\* C23 witness: a session bound a.x, failed with MatchError and ended
\* with a.x unset again; a second session then bound a.x itself
C23_Witness ==
    /\ th[1].pc = "done" /\ th[1].out = "MatchError" /\ Len(th[1].sess.names) = 1
    /\ th[1].sess.names[1] = ax
    /\ th[2].pc = "done" /\ th[2].out = "ok" /\ Len(th[2].sess.names) = 1
    /\ th[2].sess.names[1] = ax
    /\ store["a"]["x"] = th[2].data

====
